---- MODULE Spec2Model ----
(***************************************************************************)
(* Web Button Watcher: the ButtonMonitor poll loop, the DriverManager it   *)
(* drives (both the web_button_watcher and the webbuttonwatcher variant),  *)
(* and the MonitorController that starts and stops a session.              *)
(*                                                                         *)
(* Spec     the loop thread running ButtonMonitor.start_monitoring while   *)
(*          the foreground thread may call MonitorController.stop_monitoring*)
(*          and MonitorController.cleanup.                                 *)
(* SpecCtl  sequences of MonitorController calls made by one caller.       *)
(***************************************************************************)
EXTENDS Naturals, Integers, Sequences, FiniteSets, TLC

\* ---- bounds of the model ------------------------------------------------
MaxButtons == 2      \* a page shows at most this many <button> elements
MaxTargets == 2      \* length of the TargetSet
MaxDrivers == 2      \* browser drivers that can be acquired in a run
MaxWriteFailures == 1   \* writes of the settings file that fail in a run

Texts   == {"GET NOTIFIED", "BOOK NOW"}
Indices == 0 .. MaxButtons

RECURSIVE SeqsUpTo(_, _)
SeqsUpTo(S, n) ==
    IF n = 0 THEN {<<>>}
    ELSE LET shorter == SeqsUpTo(S, n - 1)
         IN  shorter \cup {Append(s, x) : s \in shorter, x \in S}

Range(s) == {s[k] : k \in 1 .. Len(s)}
NoDup(s) == Cardinality(Range(s)) = Len(s)

\* the pages the server can return, and the TargetSets (unique indices)
Pages      == SeqsUpTo(Texts, MaxButtons)
TargetSeqs == {s \in SeqsUpTo(Indices, MaxTargets) : NoDup(s)}

NoDriver == 0

VARIABLES
    \* ---- ButtonMonitor fields
    target_buttons,   \* self.target_buttons
    original_texts,   \* self.original_texts (BaselineText), a function on indices
    is_running,       \* self.is_running (RunState)
    notifier,         \* "none" or "telegram": self.notifier
    \* ---- the loop thread
    pc,               \* position of the loop thread in start_monitoring
    changes,          \* the list check_button_changes returned
    inflight,         \* driver handle of the refresh call in progress
    \* ---- DriverManager fields and the browser
    dmKind,           \* "old": web_button_watcher, "new": webbuttonwatcher
    driver,           \* self.driver: NoDriver or a handle 1..nDrivers
    nDrivers,         \* drivers acquired so far
    quits,            \* quits[d]: how often driver d was quit
    page,             \* texts of the <button> elements the browser shows
    \* ---- MonitorController fields (shared with the foreground thread)
    ctlHasDM,         \* self.driver_manager is not None
    ctlRunning,       \* self.running
    \* ---- observations (history of the run)
    notes,            \* notifications emitted in the current iteration
    status,           \* last message given to the status callback
    chkPage,          \* the buttons the last completed check read
    chkBase,          \* the baseline that check compared against
    stopped,          \* a stop request flipped the run flag of the running loop
    lateIter,         \* an iteration began after that stop request
    recovery,         \* outcome of the last re-navigation: none/ok/failed
    finalCleanup,     \* cleanup() was called after the loop ended
    \* ---- MonitorController call sequences (SpecCtl)
    c_creds,          \* settings['telegram']: the four credential strings
    c_notifier,       \* controller.notifier is not None
    c_dm,             \* controller.driver_manager: "none", or the state of its driver
    c_bm,             \* controller.button_monitor: "none" or a record
    c_running,        \* controller.running
    c_callback,       \* controller.status_callback is set
    c_status,         \* last message given to the callback
    c_last,           \* the last call made and its outcome
    \* -- SettingsManager and the settings file --
    s_mem,            \* SettingsManager.settings, the document in memory
    s_disk,           \* the settings file: its state and the document in it
    s_last,           \* the last SettingsManager call, its arguments and result
    s_failures,       \* writes of the settings file that have failed
    \* -- owners of a browser and their cleanup (SpecCleanup) --
    pm_driver,        \* PageMonitor.driver: NoDriver or a handle
    pm_is_running,    \* PageMonitor.is_running
    dm_driver,        \* DriverManager.driver: NoDriver or a handle
    cl_nDrivers,      \* browsers created so far
    cl_quit,          \* handles on which quit() was called
    cl_last,          \* the last call made and its outcome
    \* -- ButtonSelector.select_buttons_interactive (SpecSelect) --
    sel_page,         \* texts of the <button> elements of the page itself
    sel_pc,           \* position in select_buttons_interactive
    sel_ui,           \* the selection header with its confirm button is in the DOM
    selectedButtons,  \* window.selectedButtons, in click order
    selectionConfirmed, \* window.selectionConfirmed
    confirmed,        \* the local variable: what the last poll read
    sel_elapsed,      \* polls that ended in the sleep of half a second
    selected_indices, \* the list that was returned
    button_texts,     \* the texts get_button_texts captured for the selection
    sel_exit,         \* how the call ended
    \* -- MonitorThread (SpecThread) --
    mt_pc,            \* position of the thread in run()
    mt_running,       \* MonitorThread.running
    mt_dm,            \* MonitorThread.driver_manager is not None
    mt_driver,        \* its DriverManager holds a browser
    auto_click,       \* MonitorThread.auto_click
    stop_after_click, \* Config: general.stop_after_click
    mt_log,           \* monitor_started / monitor_stopped emitted, cleanup calls
    mt_stopReq,       \* stop() was called after the thread was started
    \* -- the GUI, its controller and the CLI on one settings file (SpecApp) --
    settings_file,    \* the settings file: its state and the document in it
    gui_settings,     \* QtMonitorGUI.settings_manager.settings
    controller,       \* QtMonitorGUI.controller is not None
    ctl_settings,     \* controller.settings_manager.settings
    monitoring,       \* QtMonitorGUI.monitoring
    gui_saved,        \* the credentials save_settings stored last, or None
    app_last          \* the last start of the controller and what it was given

loopVars == <<target_buttons, original_texts, is_running, notifier, pc,
              changes, inflight, dmKind, driver, nDrivers, quits, page,
              ctlHasDM, ctlRunning, notes, status, chkPage, chkBase,
              stopped, lateIter, recovery, finalCleanup>>
ctlVars  == <<c_creds, c_notifier, c_dm, c_bm, c_running, c_callback,
              c_status, c_last>>
setVars  == <<s_mem, s_disk, s_last, s_failures>>
clnVars  == <<pm_driver, pm_is_running, dm_driver, cl_nDrivers, cl_quit, cl_last>>
selVars  == <<sel_page, sel_pc, sel_ui, selectedButtons, selectionConfirmed,
              confirmed, sel_elapsed, selected_indices, button_texts, sel_exit>>
thrVars  == <<mt_pc, mt_running, mt_dm, mt_driver, auto_click, stop_after_click,
              mt_log, mt_stopReq>>
appVars  == <<settings_file, gui_settings, controller, ctl_settings, monitoring,
              gui_saved, app_last>>
extVars  == <<clnVars, selVars, thrVars, appVars>>
vars     == <<loopVars, ctlVars, setVars, extVars>>

\* ---- helpers --------------------------------------------------------------
EmptyMap == [x \in {} |-> "GET NOTIFIED"]
Put(f, k, v) == [x \in DOMAIN f \cup {k} |-> IF x = k THEN v ELSE f[x]]

\* buttons[idx].text for a 0-based idx
TextAt(buttons, idx) == buttons[idx + 1]

\* ButtonMonitor.store_original_texts, given the elements find_elements returned
RECURSIVE StoreLoop(_, _, _)
StoreLoop(ts, orig, buttons) ==
    IF ts = <<>> THEN orig
    ELSE LET idx == Head(ts)
         IN  StoreLoop(Tail(ts),
                       IF idx < Len(buttons)
                       THEN Put(orig, idx, TextAt(buttons, idx))
                       ELSE orig,
                       buttons)

\* a store that starts from an empty mapping each time it is called
StoreOriginalTextsRestarts(ts, orig, buttons) ==
    IF ts = <<>> THEN orig ELSE StoreLoop(ts, EmptyMap, buttons)

StoreOriginalTexts(ts, orig, buttons) ==
    IF ts = <<>> THEN orig ELSE StoreLoop(ts, orig, buttons)

\* a check that reports every target it reads, changed or not
RECURSIVE CheckLoopReportsAll(_, _, _)
CheckLoopReportsAll(ts, orig, buttons) ==
    IF ts = <<>> THEN <<>>
    ELSE LET idx  == Head(ts)
             rest == CheckLoopReportsAll(Tail(ts), orig, buttons)
         IN  IF idx >= Len(buttons) THEN rest
             ELSE IF idx \notin DOMAIN orig THEN rest
             ELSE <<[idx |-> idx, old |-> orig[idx],
                     new |-> TextAt(buttons, idx)]>> \o rest

\* a check that ends its loop at the first index out of range
RECURSIVE CheckLoopStopsAtMissing(_, _, _)
CheckLoopStopsAtMissing(ts, orig, buttons) ==
    IF ts = <<>> THEN <<>>
    ELSE LET idx  == Head(ts)
             rest == CheckLoopStopsAtMissing(Tail(ts), orig, buttons)
         IN  IF idx >= Len(buttons) THEN <<>>
             ELSE IF idx \notin DOMAIN orig THEN rest
             ELSE IF TextAt(buttons, idx) # orig[idx]
                  THEN <<[idx |-> idx, old |-> orig[idx],
                          new |-> TextAt(buttons, idx)]>> \o rest
                  ELSE rest

\* the for loop of ButtonMonitor.check_button_changes
RECURSIVE CheckLoop(_, _, _)
CheckLoop(ts, orig, buttons) ==
    IF ts = <<>> THEN <<>>
    ELSE LET idx  == Head(ts)
             rest == CheckLoop(Tail(ts), orig, buttons)
         IN  IF idx >= Len(buttons) THEN rest
             ELSE IF idx \notin DOMAIN orig THEN rest
             ELSE IF TextAt(buttons, idx) # orig[idx]
                  THEN <<[idx |-> idx, old |-> orig[idx],
                          new |-> TextAt(buttons, idx)]>> \o rest
                  ELSE rest

\* a notify_changes that gives up at the first send that fails
NotifyChangesAbortsOnFailure(chs, ntf, failed) ==
    LET fails == IF ntf = "none" THEN {} ELSE failed \cap (1 .. Len(chs))
        last  == IF fails = {} THEN Len(chs)
                 ELSE CHOOSE m \in fails : \A n \in fails : m <= n
    IN  [k \in 1 .. last |->
            [num  |-> chs[k].idx + 1,
             text |-> chs[k].new,
             via  |-> IF ntf = "none" \/ k \in failed THEN "console" ELSE "telegram",
             sendFailed |-> (ntf # "none" /\ k \in failed)]]

\* ButtonMonitor.notify_changes: one notification per change; sends in `failed`
\* raise and fall back to the console
NotifyChanges(chs, ntf, failed) ==
    [k \in 1 .. Len(chs) |->
        [num  |-> chs[k].idx + 1,
         text |-> chs[k].new,
         via  |-> IF ntf = "none" \/ k \in failed THEN "console" ELSE "telegram",
         sendFailed |-> (ntf # "none" /\ k \in failed)]]

\* a loop that notifies but keeps the old baseline
UpdateBaselineKeepsOld(orig, chs) == orig

\* the baseline update that follows notify_changes
RECURSIVE UpdateBaseline(_, _)
UpdateBaseline(orig, chs) ==
    IF chs = <<>> THEN orig
    ELSE UpdateBaseline(Put(orig, Head(chs).idx, Head(chs).new), Tail(chs))

\* DriverManager.cleanup: quit the driver once and forget it
QuitsAfterCleanup ==
    IF driver # NoDriver THEN [quits EXCEPT ![driver] = @ + 1] ELSE quits


\* ---- MonitorController: values ------------------------------------------------
CredKeys == {"api_id", "api_hash", "bot_token", "chat_id"}
CredValues(k) ==
    IF k \in {"api_id", "chat_id"} THEN {"", "12345", "abc"} ELSE {"", "abcdef"}
CredSets == {c \in [CredKeys -> {"", "12345", "abc", "abcdef"}] :
                \A k \in CredKeys : c[k] \in CredValues(k)}
NoCreds  == [k \in CredKeys |-> ""]

\* all(telegram_settings.values()): every credential is a non-empty string
AllCredentials(c) == \A k \in CredKeys : c[k] # ""

\* int(s) of TelegramNotifier.__init__ succeeds on a string of digits
IntParses(str) == str = "12345"

NoMonitor == [built |-> FALSE, notifier |-> FALSE, is_running |-> FALSE]
NoCall    == [op |-> "none", raised |-> FALSE, stage |-> "none",
              credsFull |-> FALSE, runningBefore |-> FALSE,
              hadDriver |-> FALSE, wasRunning |-> FALSE]

\* ---- SettingsManager: documents ----------------------------------------------
\* A JSON value is written as a tuple of tokens: a scalar is a 1-tuple, a list
\* is "list" followed by its items, the telegram and window sections are the
\* 4-tuples of their fields in the order of the source.
None == <<"None">>

TopKeys == {"url", "refresh_interval", "selected_buttons", "telegram", "window"}
AllKeys == TopKeys \cup {"test_key"}

\* the document _load_settings returns when there is no readable file
DefaultSettings ==
    [k \in TopKeys |->
        CASE k = "url"              -> <<"">>
          [] k = "refresh_interval" -> <<"5.0">>
          [] k = "selected_buttons" -> <<"list">>
          [] k = "telegram"         -> <<"", "", "", "">>
          [] k = "window"           -> <<"None", "None", "600", "900">>]

TelegramValues == {<<"", "", "", "">>, <<"1", "h", "t", "2">>}
WindowValues   == {<<"None", "None", "600", "900">>, <<"100", "200", "800", "600">>}

\* the values callers store under each key
ValuesOf(k) ==
    CASE k = "url"              -> {<<"">>, <<"https://example.com">>}
      [] k = "refresh_interval" -> {<<"5.0">>, <<"1.0">>}
      [] k = "selected_buttons" -> {<<"list">>, <<"list", "1", "0">>}
      [] k = "telegram"         -> TelegramValues
      [] k = "window"           -> WindowValues
      [] k = "test_key"         -> {<<"test_value">>}

\* the dictionaries given to update(): the session parameters of
\* start_monitoring, and the single settings of the configure menu
StartParams ==
    {[k \in {"url", "refresh_interval", "selected_buttons"} |->
        CASE k = "url" -> u [] k = "refresh_interval" -> r
          [] k = "selected_buttons" -> b] :
        u \in {<<"https://example.com">>}, r \in ValuesOf("refresh_interval"),
        b \in ValuesOf("selected_buttons")}
UpdateDicts ==
    StartParams
        \cup {[k \in {"url"} |-> u] : u \in ValuesOf("url")}
        \cup {[k \in {"refresh_interval"} |-> r] : r \in ValuesOf("refresh_interval")}

\* dict.get(key, default)
Get(doc, key, default) == IF key \in DOMAIN doc THEN doc[key] ELSE default

\* self.settings[key] = value
DocAfterSet(doc, key, value) ==
    [k \in DOMAIN doc \cup {key} |-> IF k = key THEN value ELSE doc[k]]

\* an update that replaces the document instead of merging into it
DocAfterUpdateReplaces(doc, d) == d

\* self.settings.update(settings)
DocAfterUpdate(doc, d) ==
    [k \in DOMAIN doc \cup DOMAIN d |-> IF k \in DOMAIN d THEN d[k] ELSE doc[k]]

\* a setter that stores its arguments in another order
TelegramSectionSwapped(api_id, api_hash, bot_token, chat_id) ==
    <<chat_id, api_hash, bot_token, api_id>>

\* the dictionary update_telegram_settings stores under 'telegram'
TelegramSection(api_id, api_hash, bot_token, chat_id) ==
    <<api_id, api_hash, bot_token, chat_id>>

\* the dictionary save_window_position stores under 'window'
WindowSection(x, y, width, height) == <<x, y, width, height>>

\* get_telegram_settings
GetTelegramSettings(doc) ==
    LET v == Get(doc, "telegram", <<"", "", "", "">>)
    IN  [api_id |-> v[1], api_hash |-> v[2], bot_token |-> v[3], chat_id |-> v[4]]

\* get_window_settings
GetWindowSettings(doc) ==
    LET v == Get(doc, "window", <<"None", "None", "600", "900">>)
    IN  [position_x |-> v[1], position_y |-> v[2], width |-> v[3], height |-> v[4]]

\* _load_settings: the defaults when the file is missing or unreadable, else
\* the document of the file as json.load returns it
LoadSettings(disk) ==
    IF disk.state = "ok" THEN disk.doc ELSE DefaultSettings

\* _save_settings: open(file, 'w') and json.dump; "written" is a successful
\* write, "openfails" leaves the file as it was, "dumpfails" leaves it truncated
WriteOutcomes == {"written", "openfails", "dumpfails"}

\* a mutator that returns without writing the file
DiskAfterSaveSkipped(disk, doc, outcome) == disk

DiskAfterSave(disk, doc, outcome) ==
    CASE outcome = "written"   -> [state |-> "ok", doc |-> doc]
      [] outcome = "openfails" -> disk
      [] outcome = "dumpfails" -> [state |-> "corrupt", doc |-> DefaultSettings]

NoFile == [state |-> "missing", doc |-> DefaultSettings]

NoSettingsCall ==
    [op |-> "none", arg |-> DefaultSettings, before |-> DefaultSettings,
     ret |-> TRUE, thread |-> "foreground"]

SetIdle ==
    /\ s_mem = DefaultSettings /\ s_disk = NoFile /\ s_last = NoSettingsCall
    /\ s_failures = 0

\* no cleanup call was made yet and no owner holds a browser
NoCleanupCall ==
    [op |-> "none", owner |-> "none", had |-> NoDriver, closeExc |-> "none",
     quitExc |-> "none", propagated |-> FALSE]

ClnIdle ==
    /\ pm_driver = NoDriver /\ pm_is_running = FALSE /\ dm_driver = NoDriver
    /\ cl_nDrivers = 0 /\ cl_quit = {} /\ cl_last = NoCleanupCall

\* no selection was started
SelIdle ==
    /\ sel_page = <<>> /\ sel_pc = "idle" /\ sel_ui = FALSE
    /\ selectedButtons = <<>> /\ selectionConfirmed = FALSE /\ confirmed = FALSE
    /\ sel_elapsed = 0 /\ selected_indices = <<>> /\ button_texts = EmptyMap
    /\ sel_exit = "none"

\* no MonitorThread was constructed
ThrIdle ==
    /\ mt_pc = "none" /\ mt_running = FALSE /\ mt_dm = FALSE /\ mt_driver = FALSE
    /\ auto_click = FALSE /\ stop_after_click = FALSE
    /\ mt_log = <<>> /\ mt_stopReq = FALSE

\* no start of the controller was made
NoStart ==
    [op |-> "none", targets |-> <<"list">>, interval |-> <<"5.0">>,
     wantTargets |-> <<"list">>, wantInterval |-> <<"5.0">>,
     creds |-> <<"", "", "", "">>]

\* neither the GUI nor the CLI was started
AppIdle ==
    /\ settings_file = NoFile /\ gui_settings = DefaultSettings
    /\ controller = FALSE /\ ctl_settings = DefaultSettings
    /\ monitoring = FALSE /\ gui_saved = None /\ app_last = NoStart

ExtIdle == ClnIdle /\ SelIdle /\ ThrIdle /\ AppIdle

\* ==== Spec: the loop thread and the foreground thread ========================

CtlIdle ==
    /\ c_creds = NoCreds /\ c_notifier = FALSE /\ c_dm = "none" /\ c_bm = NoMonitor
    /\ c_running = FALSE /\ c_callback = FALSE /\ c_status = "none"
    /\ c_last = NoCall

\* MonitorController.start_monitoring has acquired a driver, navigated, built the
\* ButtonMonitor, set the targets and running = True, and is about to call
\* ButtonMonitor.start_monitoring.
Init ==
    /\ target_buttons \in TargetSeqs
    /\ original_texts = EmptyMap
    /\ is_running = FALSE
    /\ notifier \in {"none", "telegram"}
    /\ pc = "start"
    /\ changes = <<>>
    /\ inflight = NoDriver
    /\ dmKind \in {"old", "new"}
    /\ driver = 1
    /\ nDrivers = 1
    /\ quits = [d \in 1 .. MaxDrivers |-> 0]
    /\ page \in Pages
    /\ ctlHasDM = TRUE
    /\ ctlRunning = TRUE
    /\ notes = <<>>
    /\ status = "starting"
    /\ chkPage = <<>>
    /\ chkBase = EmptyMap
    /\ stopped = FALSE
    /\ lateIter = FALSE
    /\ recovery = "none"
    /\ finalCleanup = FALSE
    /\ CtlIdle
    /\ SetIdle
    /\ ExtIdle

\* a start that enters the loop although the TargetSet is empty
BMStartNoTargetsRuns ==
    /\ pc = "start" /\ target_buttons = <<>>
    /\ is_running' = TRUE
    /\ status' = "Starting to monitor"
    /\ pc' = "top"
    /\ UNCHANGED <<target_buttons, original_texts, notifier,
                   changes, inflight, dmKind, driver, nDrivers, quits, page,
                   ctlHasDM, ctlRunning, notes, chkPage, chkBase, stopped, lateIter,
                   recovery, finalCleanup, ctlVars, setVars, extVars>>

\* start_monitoring with an empty TargetSet: report and return
BMStartNoTargets ==
    /\ pc = "start" /\ target_buttons = <<>>
    /\ status' = "No buttons selected for monitoring."
    /\ pc' = "done"
    /\ UNCHANGED <<target_buttons, original_texts, is_running, notifier,
                   changes, inflight, dmKind, driver, nDrivers, quits, page,
                   ctlHasDM, ctlRunning, notes, chkPage, chkBase, stopped, lateIter,
                   recovery, finalCleanup, ctlVars, setVars, extVars>>

\* start_monitoring with targets: set the run flag, then store the baseline
BMStart ==
    /\ pc = "start" /\ target_buttons # <<>>
    /\ is_running' = TRUE
    /\ status' = "Starting to monitor"
    /\ pc' = IF DOMAIN original_texts = {} THEN "store" ELSE "top"
    /\ UNCHANGED <<target_buttons, original_texts, notifier,
                   changes, inflight, dmKind, driver, nDrivers, quits, page,
                   ctlHasDM, ctlRunning, notes, chkPage, chkBase, stopped, lateIter,
                   recovery, finalCleanup, ctlVars, setVars, extVars>>

\* the store_original_texts call before the loop; it is outside the try, so an
\* error of find_elements leaves start_monitoring as an exception
BMStore ==
    /\ pc = "store"
    /\ \/ /\ driver # NoDriver
          /\ original_texts' = StoreOriginalTexts(target_buttons, original_texts, page)
          /\ pc' = "top"
       \/ /\ pc' = "raised"
          /\ UNCHANGED original_texts
    /\ UNCHANGED <<target_buttons, is_running, notifier,
                   changes, inflight, dmKind, driver, nDrivers, quits, page,
                   ctlHasDM, ctlRunning, notes, status, chkPage, chkBase,
                   stopped, lateIter, recovery, finalCleanup, ctlVars, setVars, extVars>>

\* a loop head that does not read the run flag
BMTopIgnoresFlag ==
    /\ pc = "top"
    /\ pc' = "refresh"
    /\ notes' = <<>>
    /\ changes' = <<>>
    /\ recovery' = "none"
    /\ chkPage' = <<>>
    /\ chkBase' = EmptyMap
    /\ lateIter' = (lateIter \/ stopped)
    /\ UNCHANGED <<target_buttons, original_texts, is_running, notifier,
                   inflight, dmKind, driver, nDrivers, quits, page,
                   ctlHasDM, ctlRunning, status, stopped, finalCleanup, ctlVars, setVars, extVars>>

\* while self.is_running: the flag is read at the top of every iteration
BMTop ==
    /\ pc = "top"
    /\ IF is_running
       THEN /\ pc' = "refresh"
            /\ notes' = <<>>
            /\ changes' = <<>>
            /\ recovery' = "none"
            /\ chkPage' = <<>>
            /\ chkBase' = EmptyMap
            /\ lateIter' = (lateIter \/ stopped)
            /\ UNCHANGED is_running
       ELSE /\ pc' = "done"
            /\ is_running' = FALSE
            /\ UNCHANGED <<notes, changes, recovery, chkPage, chkBase, lateIter>>
    /\ UNCHANGED <<target_buttons, original_texts, notifier,
                   inflight, dmKind, driver, nDrivers, quits, page,
                   ctlHasDM, ctlRunning, status, stopped, finalCleanup, ctlVars, setVars, extVars>>

\* refresh_page is entered: without a driver the old manager raises ValueError
\* and the new one returns False; with one, driver.refresh() is in progress
BMRefreshCall ==
    /\ pc = "refresh"
    /\ IF driver = NoDriver
       THEN /\ pc' = IF dmKind = "old" THEN "errsleep" ELSE "highlight"
            /\ status' = IF dmKind = "old" THEN "Error during monitoring" ELSE status
            /\ UNCHANGED inflight
       ELSE /\ pc' = "refreshing"
            /\ inflight' = driver
            /\ UNCHANGED status
    /\ UNCHANGED <<target_buttons, original_texts, is_running, notifier,
                   changes, dmKind, driver, nDrivers, quits, page,
                   ctlHasDM, ctlRunning, notes, chkPage, chkBase, stopped, lateIter,
                   recovery, finalCleanup, ctlVars, setVars, extVars>>

\* driver.refresh() returns: the browser shows whatever the server sent
BMRefreshOk ==
    /\ pc = "refreshing"
    /\ quits[inflight] = 0
    /\ page' \in Pages
    /\ pc' = "highlight"
    /\ inflight' = NoDriver
    /\ UNCHANGED <<target_buttons, original_texts, is_running, notifier,
                   changes, dmKind, driver, nDrivers, quits,
                   ctlHasDM, ctlRunning, notes, status, chkPage, chkBase,
                   stopped, lateIter, recovery, finalCleanup, ctlVars, setVars, extVars>>

\* DriverManager.initialize_driver when self.driver is None: a new browser
AcquireDriver ==
    /\ nDrivers < MaxDrivers
    /\ nDrivers' = nDrivers + 1
    /\ driver' = nDrivers + 1

\* driver.refresh() raises (a transient error, or the browser was quit meanwhile).
\* The old refresh_page lets the WebDriverException through; the new one catches
\* it and returns navigate_to(self.last_url), whose result the loop ignores.
BMRefreshFail ==
    /\ pc = "refreshing"
    /\ inflight' = NoDriver
    /\ IF dmKind = "old"
       THEN /\ pc' = "recover"
            /\ status' = "Browser error. Attempting to recover"
            /\ UNCHANGED <<driver, nDrivers, page, recovery>>
       ELSE \/ /\ \/ /\ driver # NoDriver
                     /\ UNCHANGED <<driver, nDrivers>>
                  \/ /\ driver = NoDriver
                     /\ AcquireDriver
               /\ \/ /\ page' \in Pages
                     /\ recovery' = "ok"
                  \/ /\ recovery' = "failed"
                     /\ UNCHANGED page
               /\ pc' = "highlight"
               /\ UNCHANGED status
            \/ \* initialize_driver raises inside navigate_to, outside its try
               /\ driver = NoDriver
               /\ pc' \in {"recover", "errsleep"}
               /\ recovery' = "failed"
               /\ status' = "Error during monitoring"
               /\ UNCHANGED <<driver, nDrivers, page>>
    /\ UNCHANGED <<target_buttons, original_texts, is_running, notifier,
                   changes, dmKind, quits,
                   ctlHasDM, ctlRunning, notes, chkPage, chkBase,
                   stopped, lateIter, finalCleanup, ctlVars, setVars, extVars>>

\* highlight_monitored_buttons: inject_css and execute_script
BMHighlight ==
    /\ pc = "highlight"
    /\ \/ /\ driver = NoDriver
          /\ pc' = "errsleep"
          /\ status' = "Error during monitoring"
       \/ /\ driver # NoDriver
          /\ pc' = "check"
          /\ UNCHANGED status
       \/ /\ driver # NoDriver
          /\ pc' = "recover"
          /\ status' = "Browser error. Attempting to recover"
    /\ UNCHANGED <<target_buttons, original_texts, is_running, notifier,
                   changes, inflight, dmKind, driver, nDrivers, quits, page,
                   ctlHasDM, ctlRunning, notes, chkPage, chkBase, stopped, lateIter,
                   recovery, finalCleanup, ctlVars, setVars, extVars>>

\* check_button_changes
CheckButtonChanges(ts, orig, buttons) ==
    IF ts = <<>> \/ DOMAIN orig = {} THEN <<>> ELSE CheckLoop(ts, orig, buttons)

BMCheck ==
    /\ pc = "check"
    /\ \/ /\ (DOMAIN original_texts = {} \/ driver # NoDriver)
          /\ changes' = CheckButtonChanges(target_buttons, original_texts, page)
          /\ chkPage' = page
          /\ chkBase' = original_texts
          /\ pc' = "notify"
          /\ UNCHANGED status
       \/ /\ DOMAIN original_texts # {} /\ driver = NoDriver
          /\ pc' = "errsleep"
          /\ status' = "Error during monitoring"
          /\ UNCHANGED <<changes, chkPage, chkBase>>
       \/ /\ DOMAIN original_texts # {} /\ driver # NoDriver
          /\ pc' = "recover"
          /\ status' = "Browser error. Attempting to recover"
          /\ UNCHANGED <<changes, chkPage, chkBase>>
    /\ UNCHANGED <<target_buttons, original_texts, is_running, notifier,
                   inflight, dmKind, driver, nDrivers, quits, page,
                   ctlHasDM, ctlRunning, notes, stopped, lateIter,
                   recovery, finalCleanup, ctlVars, setVars, extVars>>

\* if changes: notify_changes(changes)
BMNotify ==
    /\ pc = "notify"
    /\ IF changes = <<>>
       THEN /\ pc' = "sleep"
            /\ UNCHANGED notes
       ELSE /\ \E failed \in SUBSET (1 .. Len(changes)) :
                 /\ (notifier = "none" => failed = {})
                 /\ notes' = NotifyChanges(changes, notifier, failed)
            /\ pc' = "update"
    /\ UNCHANGED <<target_buttons, original_texts, is_running, notifier,
                   changes, inflight, dmKind, driver, nDrivers, quits, page,
                   ctlHasDM, ctlRunning, status, chkPage, chkBase, stopped, lateIter,
                   recovery, finalCleanup, ctlVars, setVars, extVars>>

\* for idx, _, new_text in changes: self.original_texts[idx] = new_text
BMUpdate ==
    /\ pc = "update"
    /\ original_texts' = UpdateBaseline(original_texts, changes)
    /\ pc' = "sleep"
    /\ UNCHANGED <<target_buttons, is_running, notifier,
                   changes, inflight, dmKind, driver, nDrivers, quits, page,
                   ctlHasDM, ctlRunning, notes, status, chkPage, chkBase,
                   stopped, lateIter, recovery, finalCleanup, ctlVars, setVars, extVars>>

\* time.sleep(self.refresh_interval), at the end of an iteration or in the
\* handler of an exception that is no WebDriverException
BMSleep ==
    /\ pc \in {"sleep", "errsleep"}
    /\ pc' = "top"
    /\ UNCHANGED <<target_buttons, original_texts, is_running, notifier,
                   changes, inflight, dmKind, driver, nDrivers, quits, page,
                   ctlHasDM, ctlRunning, notes, status, chkPage, chkBase,
                   stopped, lateIter, recovery, finalCleanup, ctlVars, setVars, extVars>>

\* the handler of WebDriverException failed: stop monitoring
RecoveryGivesUp ==
    /\ is_running' = FALSE
    /\ pc' = "done"
    /\ status' = "Failed to recover. Stopping monitoring."

\* except WebDriverException: navigate_to(self.driver_manager.url), then
\* store_original_texts. The old navigate_to raises when it fails; the new one
\* has self.url = None, so url.startswith raises inside its try and it returns
\* False without loading anything.
BMRecover ==
    /\ pc = "recover"
    /\ \/ \* initialize_driver (when there is no driver) or driver.get raises
          /\ (dmKind = "new" => driver = NoDriver)
          /\ RecoveryGivesUp
          /\ recovery' = "failed"
          /\ UNCHANGED <<driver, nDrivers, page, original_texts>>
       \/ \* the navigation is over, find_elements of store_original_texts raises
          /\ \/ driver # NoDriver /\ UNCHANGED <<driver, nDrivers>>
             \/ driver = NoDriver /\ AcquireDriver
          /\ \/ dmKind = "old" /\ page' \in Pages /\ recovery' = "ok"
             \/ dmKind = "new" /\ UNCHANGED page /\ recovery' = "failed"
          /\ RecoveryGivesUp
          /\ UNCHANGED original_texts
       \/ \* the handler completes and reports success
          /\ \/ driver # NoDriver /\ UNCHANGED <<driver, nDrivers>>
             \/ driver = NoDriver /\ AcquireDriver
          /\ \/ dmKind = "old" /\ page' \in Pages /\ recovery' = "ok"
             \/ dmKind = "new" /\ UNCHANGED page /\ recovery' = "failed"
          /\ original_texts' = StoreOriginalTexts(target_buttons, original_texts, page')
          /\ status' = "Recovery successful. Continuing monitoring."
          /\ pc' = "top"
          /\ UNCHANGED is_running
    /\ UNCHANGED <<target_buttons, notifier,
                   changes, inflight, dmKind, quits,
                   ctlHasDM, ctlRunning, notes, chkPage, chkBase,
                   stopped, lateIter, finalCleanup, ctlVars, setVars, extVars>>

\* MonitorController.stop_monitoring, called by the foreground thread:
\* button_monitor.stop_monitoring(), running = False, driver_manager.cleanup(),
\* driver_manager = None
StopMonitoring ==
    /\ is_running' = FALSE
    /\ ctlRunning' = FALSE
    /\ IF ctlHasDM
       THEN /\ quits' = QuitsAfterCleanup
            /\ driver' = NoDriver
       ELSE UNCHANGED <<quits, driver>>
    /\ ctlHasDM' = FALSE
    /\ status' = "Monitoring stopped. Browser closed."
    /\ stopped' = (stopped \/ is_running)

FgStop ==
    /\ pc \notin {"done", "raised"}
    /\ StopMonitoring
    /\ UNCHANGED <<target_buttons, original_texts, notifier, pc,
                   changes, inflight, dmKind, nDrivers, page,
                   notes, chkPage, chkBase, lateIter, recovery, finalCleanup, ctlVars, setVars, extVars>>

\* MonitorController.cleanup once the loop thread has ended: stop_monitoring(),
\* then cleanup of a driver manager the controller still holds
FgCleanup ==
    /\ pc \in {"done", "raised"}
    /\ ~finalCleanup
    /\ StopMonitoring
    /\ finalCleanup' = TRUE
    /\ UNCHANGED <<target_buttons, original_texts, notifier, pc,
                   changes, inflight, dmKind, nDrivers, page,
                   notes, chkPage, chkBase, lateIter, recovery, ctlVars, setVars, extVars>>

Next ==
    \/ BMStartNoTargets \/ BMStart \/ BMStore \/ BMTop
    \/ BMRefreshCall \/ BMRefreshOk \/ BMRefreshFail
    \/ BMHighlight \/ BMCheck \/ BMNotify \/ BMUpdate \/ BMSleep
    \/ BMRecover \/ FgStop \/ FgCleanup

Spec == Init /\ [][Next]_vars


\* ==== properties of the loop (Spec) ==========================================

NotesFor(i) == {k \in 1 .. Len(notes) : notes[k].num = i + 1}

\* target i was read by the completed check of this iteration, with a baseline
Observed(i) ==
    /\ i \in Range(target_buttons)
    /\ i < Len(chkPage)
    /\ i \in DOMAIN chkBase

\* C1: at the end of an iteration whose check completed, every target in range
\* and with a baseline entry whose text differed from the baseline has exactly
\* one notification, naming button i+1 and the new text, and baseline[i] is the
\* new text before the next iteration starts.
C1_ChangeNotifiedOnce ==
    pc = "sleep" =>
        \A i \in Indices :
            (Observed(i) /\ TextAt(chkPage, i) # chkBase[i]) =>
                /\ Cardinality(NotesFor(i)) = 1
                /\ \A k \in NotesFor(i) : notes[k].text = TextAt(chkPage, i)
                /\ i \in DOMAIN original_texts
                /\ original_texts[i] = TextAt(chkPage, i)

C1_Witness ==
    /\ pc = "sleep"
    /\ \E i \in Indices :
          /\ Observed(i) /\ TextAt(chkPage, i) # chkBase[i]
          /\ NotesFor(i) # {}
          /\ original_texts[i] = TextAt(chkPage, i)

\* C2: once a stop request has flipped the run flag of the running loop, the
\* flag stays false and no further iteration begins, so every notification
\* after the request belongs to the iteration that was in progress.
C2_StopCooperative ==
    /\ stopped => ~is_running
    /\ ~lateIter

C2_Witness ==
    /\ stopped /\ pc = "done" /\ notes # <<>>

\* C3: every driver that was acquired is quit exactly once: never twice, and
\* none is left unreleased after the loop has ended and cleanup() was called.
C3_DriverQuitExactlyOnce ==
    /\ \A d \in 1 .. nDrivers : quits[d] <= 1
    /\ finalCleanup => \A d \in 1 .. nDrivers : quits[d] = 1

\* C4: after a transient error, a recovery whose re-navigation did not succeed
\* ends in Stopped: the loop does not come back to the top of an iteration
\* still running.
C4_FailedRecoveryStops ==
    (pc = "top" /\ recovery = "failed") => ~is_running

\* C5: at the end of an iteration whose check completed, a target whose text
\* equalled its baseline has no notification and its baseline entry is what it
\* was.
C5_UnchangedIsSilent ==
    pc = "sleep" =>
        \A i \in Indices :
            (Observed(i) /\ TextAt(chkPage, i) = chkBase[i]) =>
                /\ NotesFor(i) = {}
                /\ i \in DOMAIN original_texts
                /\ original_texts[i] = chkBase[i]

C5_Witness ==
    /\ pc = "sleep"
    /\ notes # <<>>
    /\ \E i \in Indices : Observed(i) /\ TextAt(chkPage, i) = chkBase[i]

\* a check of this iteration met target i beyond the buttons found
OutOfRange(i) ==
    /\ i \in Range(target_buttons)
    /\ i >= Len(chkPage)

\* C6: a target index not smaller than the number of buttons found is skipped:
\* it gets no notification and no baseline change, the check still completes,
\* the other targets of the iteration are notified if they changed, and the
\* loop keeps running unless a stop was requested.
C6_OutOfRangeSkipped ==
    (pc \in {"update", "sleep"} /\ DOMAIN chkBase # {}) =>
        \A i \in Indices :
            OutOfRange(i) =>
                /\ NotesFor(i) = {}
                /\ (i \in DOMAIN chkBase =>
                       i \in DOMAIN original_texts /\ original_texts[i] = chkBase[i])
                /\ (i \notin DOMAIN chkBase => i \notin DOMAIN original_texts)
                /\ \A j \in Indices :
                      (Observed(j) /\ TextAt(chkPage, j) # chkBase[j])
                          => NotesFor(j) # {}
                /\ (~stopped => is_running)

C6_Witness ==
    /\ pc = "sleep"
    /\ Len(target_buttons) = 2
    /\ OutOfRange(target_buttons[1])
    /\ Observed(target_buttons[2])
    /\ NotesFor(target_buttons[2]) # {}
    /\ is_running

LoopIdle ==
    /\ target_buttons = <<>> /\ original_texts = EmptyMap /\ is_running = FALSE
    /\ notifier = "none" /\ pc = "idle" /\ changes = <<>> /\ inflight = NoDriver
    /\ dmKind = "new" /\ driver = NoDriver /\ nDrivers = 0
    /\ quits = [d \in 1 .. MaxDrivers |-> 0] /\ page = <<>>
    /\ ctlHasDM = FALSE /\ ctlRunning = FALSE /\ notes = <<>> /\ status = "none"
    /\ chkPage = <<>> /\ chkBase = EmptyMap /\ stopped = FALSE /\ lateIter = FALSE
    /\ recovery = "none" /\ finalCleanup = FALSE

\* MonitorController.__init__
InitCtl ==
    /\ c_creds \in CredSets
    /\ c_notifier = FALSE
    /\ c_dm = "none"
    /\ c_bm = NoMonitor
    /\ c_running = FALSE
    /\ c_callback = FALSE
    /\ c_status = "none"
    /\ c_last = NoCall
    /\ LoopIdle
    /\ SetIdle
    /\ ExtIdle

\* set_status_callback
CtlSetStatusCallback ==
    /\ ~c_callback
    /\ c_callback' = TRUE
    /\ UNCHANGED <<c_creds, c_notifier, c_dm, c_bm, c_running, c_status, c_last,
                   loopVars, setVars, extVars>>

\* MonitorController.update_telegram_settings
CtlUpdateTelegramSettings ==
    /\ \E c \in CredSets : c_creds' = c
    /\ c_last' = [NoCall EXCEPT !.op = "configure"]
    /\ UNCHANGED <<c_notifier, c_dm, c_bm, c_running, c_callback, c_status,
                   loopVars, setVars, extVars>>

\* the browser window is closed or crashes: driver.current_url raises from now on
CtlBrowserDies ==
    /\ c_dm = "alive"
    /\ c_dm' = "dead"
    /\ UNCHANGED <<c_creds, c_notifier, c_bm, c_running, c_callback, c_status,
                   c_last, loopVars, setVars, extVars>>

\* MonitorController.select_buttons: acquire a driver manager if none is held,
\* navigate, select interactively, then close the browser; an exception of
\* initialize_driver or of the selector is re-raised with the manager kept
CtlSelectButtons ==
    /\ \E outcome \in {"selected", "empty", "init", "selector"} :
          /\ (outcome = "init" => c_dm \in {"none", "nodriver"})
          /\ c_dm' = IF outcome \in {"selected", "empty"} THEN "none"
                     ELSE IF outcome = "init" THEN "nodriver"
                     ELSE IF c_dm \in {"none", "nodriver"} THEN "alive"
                     ELSE c_dm
          /\ c_last' = [NoCall EXCEPT !.op = "select",
                                      !.raised = (outcome \in {"init", "selector"}),
                                      !.stage = outcome,
                                      !.runningBefore = c_running,
                                      !.hadDriver = (c_dm \in {"alive", "dead"}),
                                      !.wasRunning = c_bm.is_running]
    /\ UNCHANGED <<c_creds, c_notifier, c_bm, c_running, c_callback, c_status,
                   loopVars, setVars, extVars>>

\* the stages of start_monitoring at which an exception can be raised; a failed
\* page load is not one: navigate_to returns False, which is not read
StartStages == {"notifier", "init", "monitor", "none"}

\* TelegramNotifier(): the credentials are converted with int(), then the
\* client connects; either can raise
NotifierRaises(c, stage) ==
    \/ ~IntParses(c["api_id"])
    \/ ~IntParses(c["chat_id"])
    \/ stage = "notifier"

\* self.notifier after "if all(...): self.notifier = TelegramNotifier()"
NotifierAfterStart(had, c) ==
    IF AllCredentials(c) THEN TRUE ELSE had

\* needs_new_driver after the check of the existing driver manager
NeedsNewDriver(dm) == dm # "alive"

\* self.running when start_monitoring raises at `stage` or returns
RunningAfterStart(stage, before) ==
    IF stage \in {"notifier", "init"} THEN before ELSE TRUE

\* the except clause of start_monitoring: report through the callback, re-raise
StatusAfterStart(raised, cb, prev, monitorStatus) ==
    IF ~cb THEN prev
    ELSE IF raised THEN "Error during monitoring"
    ELSE monitorStatus

\* MonitorController.start_monitoring(url, refresh_interval, selected_buttons);
\* sel is the kind of object given as selected_buttons: an empty list, a list
\* of indices, or the float that cli_main passes in that position
CtlStartMonitoring ==
    \E sel \in {"empty", "list", "float"}, stage \in StartStages :
        LET full      == AllCredentials(c_creds)
            ntfFails  == full /\ NotifierRaises(c_creds, stage)
            needsNew  == NeedsNewDriver(c_dm)
            \* where the exception, if any, is raised
            \* where the exception, if any, is raised: len() of a float raises
            \* TypeError, in the status message when a callback is set and else
            \* in the monitor's own start message
            failAt    == IF ntfFails THEN "notifier"
                         ELSE IF stage = "init" THEN stage
                         ELSE IF sel = "float" /\ c_callback THEN "callback"
                         ELSE IF sel = "float" THEN "monitor"
                         ELSE stage
            raised    == failAt # "none"
            pastNtf   == failAt # "notifier"
            pastDrv   == failAt \notin {"notifier", "init"}
        IN  /\ (stage = "notifier" => full)
            /\ (stage = "init" => needsNew)
            /\ (stage = "monitor" => sel = "list")
            /\ c_notifier' = IF pastNtf THEN NotifierAfterStart(c_notifier, c_creds)
                             ELSE c_notifier
            /\ c_dm' = IF ~pastNtf THEN c_dm
                       ELSE IF ~needsNew THEN c_dm
                       ELSE IF failAt = "init" THEN "nodriver"
                       ELSE "alive"
            /\ c_bm' = IF pastDrv
                       THEN [built |-> TRUE,
                             notifier |-> c_notifier',
                             is_running |-> (failAt = "monitor")]
                       ELSE c_bm
            /\ c_running' = RunningAfterStart(failAt, c_running)
            /\ c_status' = StatusAfterStart(raised, c_callback, c_status,
                              IF sel = "empty"
                              THEN "No buttons selected for monitoring."
                              ELSE "Failed to recover. Stopping monitoring.")
            /\ c_last' = [op |-> "start", raised |-> raised, stage |-> failAt,
                          credsFull |-> full, runningBefore |-> c_running,
                          hadDriver |-> (c_dm \in {"alive", "dead"}),
                          wasRunning |-> c_bm.is_running]
            /\ UNCHANGED <<c_creds, c_callback, loopVars, setVars, extVars>>

\* a stop that releases the driver manager only when a monitor was built
DriverManagerAfterStopNested(dm, built) == IF built THEN "none" ELSE dm

\* self.driver_manager after stop_monitoring: cleaned up if held, then None
DriverManagerAfterStop(dm, built) == "none"

\* MonitorController.stop_monitoring; cleanup() is stop_monitoring() followed by
\* a cleanup of the driver manager, which stop_monitoring has already dropped
StopEffect(op) ==
    /\ c_bm' = IF c_bm.built THEN [c_bm EXCEPT !.is_running = FALSE] ELSE c_bm
    /\ c_running' = FALSE
    /\ c_dm' = DriverManagerAfterStop(c_dm, c_bm.built)
    /\ c_status' = IF c_callback THEN "Monitoring stopped. Browser closed."
                   ELSE c_status
    /\ c_last' = [NoCall EXCEPT !.op = op,
                                !.runningBefore = c_running,
                                !.hadDriver = (c_dm \in {"alive", "dead"}),
                                !.wasRunning = c_bm.is_running]
    /\ UNCHANGED <<c_creds, c_notifier, c_callback, loopVars, setVars, extVars>>

CtlStopMonitoring == StopEffect("stop")

CtlCleanup == StopEffect("cleanup")

NextCtl ==
    \/ CtlSetStatusCallback \/ CtlUpdateTelegramSettings \/ CtlBrowserDies
    \/ CtlSelectButtons
    \/ CtlStartMonitoring \/ CtlStopMonitoring \/ CtlCleanup

SpecCtl == InitCtl /\ [][NextCtl]_vars


\* ==== properties of the controller (SpecCtl) ==================================

\* C8: a start_monitoring call that raises reports the error through the status
\* callback when one is set and re-raises; when it raised before the monitor
\* was started, on a controller that was not running, running is still False.
C8_StartFailureReported ==
    (c_last.op = "start" /\ c_last.raised) =>
        /\ (c_callback => c_status = "Error during monitoring")
        /\ (c_last.stage # "monitor" /\ ~c_last.runningBefore => ~c_running)

\* C9: the monitor built by a start has a notifier if and only if all four
\* credentials were non-empty in the settings at that start.
C9_NotifierIffCredentials ==
    (c_last.op = "start" /\ c_last.stage \in {"callback", "monitor", "none"}) =>
        (c_bm.notifier <=> c_last.credsFull)

\* C10: stop_monitoring returns without raising in every controller state, and
\* afterwards running is False, no driver manager is held and the run flag of
\* the monitor, if one was built, is false.
C10_StopAlwaysSafe ==
    c_last.op = "stop" =>
        /\ ~c_last.raised
        /\ ~c_running
        /\ c_dm = "none"
        /\ ~c_bm.is_running

\* stop_monitoring was called with no monitor built while a driver was held
C10_Witness ==
    /\ c_last.op = "stop"
    /\ c_last.hadDriver
    /\ ~c_bm.built
    /\ c_dm = "none"

\* C11: after select_buttons has returned a selection, returned an empty
\* selection, or raised, the controller holds no live driver.
C11_SelectReleasesDriver ==
    c_last.op = "select" => c_dm \notin {"alive", "dead"}


\* ==== SpecSettings: one SettingsManager, its callers and the settings file ====

\* the files a SettingsManager can find when it is constructed: none, an
\* unreadable one, a complete document, or a document lacking one fixed key
FilesAtLoad ==
    {NoFile, [state |-> "corrupt", doc |-> DefaultSettings],
     [state |-> "ok", doc |-> DefaultSettings]}
        \cup {[state |-> "ok",
               doc |-> [k \in TopKeys \ {m} |-> DefaultSettings[k]]] : m \in TopKeys}

\* SettingsManager.__init__
InitSettings ==
    /\ s_disk \in FilesAtLoad
    /\ s_mem = LoadSettings(s_disk)
    /\ s_last = [NoSettingsCall EXCEPT !.op = "load"]
    /\ s_failures = 0
    /\ LoopIdle
    /\ CtlIdle
    /\ ExtIdle

\* a mutator: change the document in memory, then _save_settings
Mutate(op, arg, doc, thread) ==
    \E outcome \in WriteOutcomes :
        /\ (outcome # "written" => s_failures < MaxWriteFailures)
        /\ s_failures' = IF outcome = "written" THEN s_failures ELSE s_failures + 1
        /\ s_mem' = doc
        /\ s_disk' = DiskAfterSave(s_disk, doc, outcome)
        /\ s_last' = [op |-> op, arg |-> arg, before |-> s_mem,
                      ret |-> (outcome = "written"), thread |-> thread]
        /\ UNCHANGED <<loopVars, ctlVars, extVars>>

\* SettingsManager.set, called by select_buttons and by the GUI
SMSet ==
    \E k \in AllKeys : \E v \in ValuesOf(k) :
        Mutate("set", [x \in {k} |-> v], DocAfterSet(s_mem, k, v), "foreground")

\* SettingsManager.update, called by the configure menu and by save_settings
SMUpdate ==
    \E d \in UpdateDicts :
        Mutate("update", d, DocAfterUpdate(s_mem, d), "foreground")

\* SettingsManager.update_telegram_settings
SMUpdateTelegramSettings ==
    \E v \in TelegramValues :
        Mutate("update_telegram_settings", [x \in {"telegram"} |-> v],
               DocAfterSet(s_mem, "telegram",
                           TelegramSection(v[1], v[2], v[3], v[4])),
               "foreground")

\* SettingsManager.save_window_position
SMSaveWindowPosition ==
    \E v \in WindowValues :
        Mutate("save_window_position", [x \in {"window"} |-> v],
               DocAfterSet(s_mem, "window", WindowSection(v[1], v[2], v[3], v[4])),
               "foreground")

\* the settings_manager.update at the head of MonitorController.start_monitoring:
\* it runs in the thread that called start_monitoring, which is the foreground
\* thread for the CLI and the MonitorThread of the GUI
StartThreads == {"foreground", "loop"}
SMStartMonitoring ==
    \E d \in StartParams, th \in StartThreads :
        Mutate("update", d, DocAfterUpdate(s_mem, d), th)

\* the program is started again: a new SettingsManager reads the file
SMReload ==
    /\ s_last.op # "load"
    /\ s_mem' = LoadSettings(s_disk)
    /\ s_last' = [NoSettingsCall EXCEPT !.op = "load", !.before = s_mem]
    /\ UNCHANGED <<s_disk, s_failures, loopVars, ctlVars, extVars>>

NextSettings ==
    \/ SMSet \/ SMUpdate \/ SMUpdateTelegramSettings \/ SMSaveWindowPosition
    \/ SMStartMonitoring \/ SMReload

SpecSettings == InitSettings /\ [][NextSettings]_vars


\* ==== properties of the settings store (SpecSettings) =========================

Mutators == {"set", "update", "update_telegram_settings", "save_window_position"}

\* the call left every key outside `keys` as it was: present or absent, and
\* with the same value
OthersUnchanged(keys) ==
    /\ DOMAIN s_mem \ keys = DOMAIN s_last.before \ keys
    /\ \A k \in DOMAIN s_mem \ keys : s_mem[k] = s_last.before[k]

\* C12: after update_telegram_settings(a, h, t, c) get_telegram_settings()
\* returns exactly those four values under their names, after
\* save_window_position(x, y, w, h) get_window_settings() returns exactly those
\* four, and neither setter changes another top-level key.
C12_DedicatedPairsRoundTrip ==
    /\ s_last.op = "update_telegram_settings" =>
          LET v == s_last.arg["telegram"]
          IN  /\ GetTelegramSettings(s_mem) =
                     [api_id |-> v[1], api_hash |-> v[2],
                      bot_token |-> v[3], chat_id |-> v[4]]
              /\ OthersUnchanged({"telegram"})
    /\ s_last.op = "save_window_position" =>
          LET v == s_last.arg["window"]
          IN  /\ GetWindowSettings(s_mem) =
                     [position_x |-> v[1], position_y |-> v[2],
                      width |-> v[3], height |-> v[4]]
              /\ OthersUnchanged({"window"})

C12_Witness ==
    /\ s_last.op = "update_telegram_settings"
    /\ s_last.arg["telegram"] = <<"1", "h", "t", "2">>
    /\ GetTelegramSettings(s_last.before).api_id = ""
    /\ "url" \in DOMAIN s_mem /\ s_mem["url"] = <<"https://example.com">>
    /\ GetWindowSettings(s_mem).width = "800"

\* C13: after set(k, v) get(k) returns v; get of an absent key returns the
\* supplied default, None when omitted; update(d) sets exactly the keys of d,
\* overwriting existing values, and leaves every other key unchanged.
C13_SetGetUpdate ==
    /\ s_last.op = "set" =>
          \A k \in DOMAIN s_last.arg : Get(s_mem, k, None) = s_last.arg[k]
    /\ \A k \in AllKeys \ DOMAIN s_mem :
          \A d \in {None, <<"default">>} : Get(s_mem, k, d) = d
    /\ s_last.op = "update" =>
          /\ \A k \in DOMAIN s_last.arg :
                k \in DOMAIN s_mem /\ s_mem[k] = s_last.arg[k]
          /\ OthersUnchanged(DOMAIN s_last.arg)

C13_Witness ==
    /\ s_last.op = "update"
    /\ DOMAIN s_last.arg = {"url"}
    /\ "url" \in DOMAIN s_last.before /\ s_last.before["url"] # s_mem["url"]
    /\ "test_key" \in DOMAIN s_mem
    /\ GetTelegramSettings(s_mem).api_id = "1"

\* C14: a mutator whose write succeeded returns True with the file holding
\* exactly the document in memory, whatever happened to earlier writes; a
\* mutator whose write failed returns False, with the change made in memory.
C14_DiskFollowsMemory ==
    s_last.op \in Mutators =>
        /\ s_last.ret => s_disk = [state |-> "ok", doc |-> s_mem]
        /\ ~s_last.ret => s_failures > 0
        /\ \A k \in DOMAIN s_last.arg : k \in DOMAIN s_mem /\ s_mem[k] = s_last.arg[k]

C14_Witness ==
    /\ s_last.op = "save_window_position"
    /\ s_last.ret
    /\ s_failures > 0
    /\ s_disk.state = "ok" /\ s_disk.doc = s_mem
    /\ s_mem # s_last.before

\* C15: after loading a file that lacks a fixed top-level key, reading that key
\* (the telegram and window sections through their getters, the other keys
\* through get) yields its default value.
C15_LoadMergesDefaults ==
    (s_last.op = "load" /\ s_disk.state = "ok") =>
        \A k \in TopKeys \ DOMAIN s_disk.doc :
            CASE k = "telegram" ->
                    GetTelegramSettings(s_mem) = GetTelegramSettings(DefaultSettings)
              [] k = "window" ->
                    GetWindowSettings(s_mem) = GetWindowSettings(DefaultSettings)
              [] OTHER -> Get(s_mem, k, None) = DefaultSettings[k]

\* C20: every mutation of the settings document is made by the foreground
\* thread, never by the loop thread.
C20_OnlyForegroundWrites ==
    s_last.op \in Mutators => s_last.thread = "foreground"


\* ==== further properties of the loop (Spec) ===================================

\* C16: the changes of one iteration each have their own notification, and the
\* notifications are emitted in ascending ButtonIndex order.
C16_AscendingOrder ==
    pc \in {"update", "sleep"} =>
        /\ Len(notes) = Len(changes)
        /\ \A j, k \in 1 .. Len(notes) : j < k => notes[j].num < notes[k].num

\* C17: when a send failed in an iteration, every change of the iteration still
\* has exactly one notification (no retry, none dropped), the baseline of every
\* change, the failed ones included, is the new text, and the loop goes on.
C17_SendFailureTolerated ==
    (pc = "sleep" /\ \E k \in 1 .. Len(notes) : notes[k].sendFailed) =>
        /\ Len(notes) = Len(changes)
        /\ \A k \in 1 .. Len(changes) :
              /\ notes[k].num = changes[k].idx + 1
              /\ notes[k].text = changes[k].new
              /\ original_texts[changes[k].idx] = changes[k].new
        /\ (~stopped => is_running)

C17_Witness ==
    /\ pc = "sleep"
    /\ Len(notes) = 2
    /\ notes[1].sendFailed /\ notes[1].via = "console"
    /\ ~notes[2].sendFailed /\ notes[2].via = "telegram"
    /\ is_running

\* C18: when the monitor has stopped, by a stop request or by an error it could
\* not recover from, every driver that was acquired has been released.
C18_StoppedReleasesDriver ==
    (pc = "done" /\ target_buttons # <<>>) =>
        \A d \in 1 .. nDrivers : quits[d] > 0

\* C19: a successful recovery is reported only when the re-navigation
\* succeeded, and a recovery whose re-navigation failed leaves the monitor
\* stopped.
C19_RecoveryHonest ==
    /\ status = "Recovery successful. Continuing monitoring." => recovery # "failed"
    /\ (recovery = "failed" /\ pc \in {"top", "done"}) => (~is_running /\ pc = "done")

\* C26: in every step of a monitoring run the baseline keeps all its keys, its
\* keys are target indices, the TargetSet stays as it is, and the baseline is
\* written only by store_original_texts (before the loop or in the recovery)
\* and by the update that follows a detected change.
C26_BaselineGrowsOnTargets ==
    [][/\ DOMAIN original_texts \subseteq DOMAIN original_texts'
       /\ DOMAIN original_texts' \subseteq Range(target_buttons')
       /\ target_buttons' = target_buttons
       /\ original_texts' # original_texts =>
              \/ pc \in {"store", "recover"}
              \/ pc = "update" /\ changes # <<>>]_vars

C26_Witness ==
    /\ pc = "sleep" /\ changes # <<>>
    /\ recovery = "ok"
    /\ DOMAIN original_texts = Range(target_buttons)
    /\ Len(target_buttons) = MaxTargets

\* C21: while the loop thread is inside a driver call, no foreground action
\* uses or closes that driver.
C21_DriverOwnedByLoop ==
    inflight # NoDriver => quits[inflight] = 0


\* ==== further properties of the controller (SpecCtl) ==========================

\* C22: a start with four non-empty credentials of which api_id or chat_id is
\* no integer does not abort: the monitor is built and runs without notifier.
C22_FormatErrorNotFatal ==
    (/\ c_last.op = "start"
     /\ c_last.credsFull
     /\ (~IntParses(c_creds["api_id"]) \/ ~IntParses(c_creds["chat_id"])))
        => (c_last.stage # "notifier" /\ c_bm.built /\ ~c_bm.notifier)

\* ==== SpecCleanup: the owners of a browser and their cleanup ==================

\* what a call of the browser can raise: nothing, selenium's
\* WebDriverException, or any other exception (OSError, urllib3's
\* MaxRetryError when the chromedriver process is gone)
ExcKinds == {"none", "WebDriverException", "OSError"}

\* DriverManager.cleanup sets the handle to None in its finally clause
DMDriverAfterCleanup(handle, quitExc) == NoDriver

\* PageMonitor.cleanup: the window loop and quit() each have their own
\* except WebDriverException; anything else leaves through the outer
\* except Exception, which skips self.driver = None
PMQuitCalled(handle, closeExc) ==
    handle # NoDriver /\ closeExc \in {"none", "WebDriverException"}

PMDriverAfterCleanup(handle, closeExc, quitExc) ==
    IF handle = NoDriver THEN NoDriver
    ELSE IF closeExc = "OSError" THEN handle
    ELSE IF quitExc = "OSError" THEN handle
    ELSE NoDriver

InitCleanup ==
    /\ ClnIdle /\ SelIdle /\ ThrIdle /\ AppIdle
    /\ LoopIdle /\ CtlIdle /\ SetIdle

\* DriverManager.initialize_driver: reuse the driver that exists, else start one
DMInitializeDriver ==
    /\ dm_driver = NoDriver
    /\ cl_nDrivers < MaxDrivers
    /\ \E ok \in BOOLEAN :
          /\ dm_driver' = IF ok THEN cl_nDrivers + 1 ELSE NoDriver
          /\ cl_nDrivers' = IF ok THEN cl_nDrivers + 1 ELSE cl_nDrivers
          /\ cl_last' = [NoCleanupCall EXCEPT !.op = "initialize_driver",
                            !.owner = "DriverManager", !.propagated = ~ok]
    /\ UNCHANGED <<pm_driver, pm_is_running, cl_quit, selVars, thrVars, appVars, loopVars, ctlVars, setVars>>

\* DriverManager.cleanup
DMCleanup ==
    \E quitExc \in ExcKinds :
        /\ dm_driver' = DMDriverAfterCleanup(dm_driver, quitExc)
        /\ cl_quit' = IF dm_driver # NoDriver THEN cl_quit \cup {dm_driver} ELSE cl_quit
        /\ cl_last' = [op |-> "cleanup", owner |-> "DriverManager", had |-> dm_driver,
                       closeExc |-> "none",
                       quitExc |-> IF dm_driver # NoDriver THEN quitExc ELSE "none",
                       propagated |-> FALSE]
        /\ UNCHANGED <<pm_driver, pm_is_running, cl_nDrivers, selVars, thrVars, appVars, loopVars, ctlVars, setVars>>

\* PageMonitor.monitor up to self.is_running = True, with targets selected:
\* setup_driver only when there is no handle; setup_driver cleans up (nothing
\* to do without a handle), starts Chrome, and on a failure cleans up and raises
PMMonitor ==
    /\ ~pm_is_running
    /\ \/ /\ pm_driver # NoDriver
          /\ pm_is_running' = TRUE
          /\ cl_last' = [NoCleanupCall EXCEPT !.op = "monitor", !.owner = "PageMonitor",
                            !.had = pm_driver]
          /\ UNCHANGED <<pm_driver, cl_nDrivers>>
       \/ /\ pm_driver = NoDriver
          /\ cl_nDrivers < MaxDrivers
          /\ \E ok \in BOOLEAN :
                /\ pm_driver' = IF ok THEN cl_nDrivers + 1 ELSE NoDriver
                /\ cl_nDrivers' = IF ok THEN cl_nDrivers + 1 ELSE cl_nDrivers
                /\ pm_is_running' = ok
                /\ cl_last' = [NoCleanupCall EXCEPT !.op = "monitor",
                                  !.owner = "PageMonitor", !.propagated = ~ok]
    /\ UNCHANGED <<dm_driver, cl_quit, selVars, thrVars, appVars, loopVars, ctlVars, setVars>>

\* PageMonitor.cleanup, as called by stop(), by the finally clause of monitor()
\* and at interpreter exit
PMCleanup ==
    \E closeExc \in ExcKinds, quitExc \in ExcKinds :
        /\ pm_is_running' = FALSE
        /\ pm_driver' = PMDriverAfterCleanup(pm_driver, closeExc, quitExc)
        /\ cl_quit' = IF PMQuitCalled(pm_driver, closeExc)
                      THEN cl_quit \cup {pm_driver} ELSE cl_quit
        /\ cl_last' = [op |-> "cleanup", owner |-> "PageMonitor", had |-> pm_driver,
                       closeExc |-> IF pm_driver # NoDriver THEN closeExc ELSE "none",
                       quitExc |-> IF PMQuitCalled(pm_driver, closeExc)
                                   THEN quitExc ELSE "none",
                       propagated |-> FALSE]
        /\ UNCHANGED <<dm_driver, cl_nDrivers, selVars, thrVars, appVars, loopVars, ctlVars, setVars>>

NextCleanup ==
    \/ DMInitializeDriver \/ DMCleanup
    \/ PMMonitor \/ PMCleanup

SpecCleanup == InitCleanup /\ [][NextCleanup]_vars

\* C24: a cleanup never propagates an exception and leaves its owner without a
\* handle, whatever closing the browser raised; so the cleanup after it has
\* nothing to close, and the start after it runs on a browser that was never
\* closed.
C24_CleanupTolerantAndComplete ==
    /\ cl_last.op = "cleanup" =>
          /\ ~cl_last.propagated
          /\ (cl_last.owner = "PageMonitor" => pm_driver = NoDriver)
          /\ (cl_last.owner = "DriverManager" => dm_driver = NoDriver)
    /\ (cl_last.op = "monitor" /\ ~cl_last.propagated) => pm_driver \notin cl_quit
    /\ (cl_last.op = "initialize_driver" /\ ~cl_last.propagated) => dm_driver \notin cl_quit

\* ==== SpecSelect: the interactive selection of buttons ========================

MaxPolls == 2        \* polls of the confirmation flag that fit into the timeout

\* textContent of the confirm button the selection UI adds
ConfirmText == "Confirm Selection"

\* the <button> elements find_elements returns, in document order: the header
\* with the confirm button is inserted as the first child of the body
DomButtons(pg, ui) == IF ui THEN <<ConfirmText>> \o pg ELSE pg

\* get_button_texts(button_indices) over the elements find_elements returned
GetButtonTexts(indices, buttons) ==
    [i \in {j \in Range(indices) : j < Len(buttons)} |-> TextAt(buttons, i)]

\* the click handler of an overlay: push the index, or splice it out
RECURSIVE Without(_, _)
Without(sq, x) ==
    IF sq = <<>> THEN <<>>
    ELSE IF Head(sq) = x THEN Without(Tail(sq), x)
    ELSE <<Head(sq)>> \o Without(Tail(sq), x)

Toggle(sq, x) == IF x \in Range(sq) THEN Without(sq, x) ELSE Append(sq, x)

\* a wait that has no timeout
WaitNeverExpires(elapsed) == FALSE

\* the negation of the loop condition time.time() - start_time < timeout
WaitExpired(elapsed) == elapsed >= MaxPolls

InitSelect ==
    /\ sel_page \in Pages
    /\ sel_pc = "start" /\ sel_ui = FALSE
    /\ selectedButtons = <<>> /\ selectionConfirmed = FALSE /\ confirmed = FALSE
    /\ sel_elapsed = 0 /\ selected_indices = <<>> /\ button_texts = EmptyMap
    /\ sel_exit = "none"
    /\ ClnIdle /\ ThrIdle /\ AppIdle /\ LoopIdle /\ CtlIdle /\ SetIdle

\* select_buttons_interactive up to the wait: inject_css, find the buttons,
\* raise ValueError when there are none, inject the selection UI. These driver
\* calls are outside the try, so their errors leave the call as exceptions.
SelBegin ==
    /\ sel_pc = "start"
    /\ \E ok \in BOOLEAN :
          IF ~ok
          THEN /\ sel_pc' = "raised" /\ sel_exit' = "driver"
               /\ UNCHANGED <<sel_ui, selectedButtons, selectionConfirmed>>
          ELSE IF sel_page = <<>>
          THEN /\ sel_pc' = "raised" /\ sel_exit' = "nobuttons"
               /\ UNCHANGED <<sel_ui, selectedButtons, selectionConfirmed>>
          ELSE /\ sel_pc' = "wait" /\ sel_exit' = "none"
               /\ sel_ui' = TRUE
               /\ selectedButtons' = <<>>
               /\ selectionConfirmed' = FALSE
    /\ UNCHANGED <<sel_page, confirmed, sel_elapsed, selected_indices, button_texts,
                   clnVars, thrVars, appVars, loopVars, ctlVars, setVars>>

\* the user clicks the overlay of page button i
UserClick ==
    /\ sel_ui /\ sel_pc \in {"wait", "confirmed"}
    /\ \E i \in 0 .. Len(sel_page) - 1 :
          selectedButtons' = Toggle(selectedButtons, i)
    /\ UNCHANGED <<sel_page, sel_pc, sel_ui, selectionConfirmed, confirmed,
                   sel_elapsed, selected_indices, button_texts, sel_exit,
                   clnVars, thrVars, appVars, loopVars, ctlVars, setVars>>

\* the user clicks "Confirm Selection"
UserConfirm ==
    /\ sel_ui /\ sel_pc = "wait" /\ ~selectionConfirmed
    /\ selectionConfirmed' = TRUE
    /\ UNCHANGED <<sel_page, sel_pc, sel_ui, selectedButtons, confirmed,
                   sel_elapsed, selected_indices, button_texts, sel_exit,
                   clnVars, thrVars, appVars, loopVars, ctlVars, setVars>>

\* one evaluation of the while condition and, inside the timeout, one
\* iteration: read the flag, break when it is true, else sleep
SelPoll ==
    /\ sel_pc = "wait"
    /\ IF WaitExpired(sel_elapsed)
       THEN \* the loop is left with confirmed false: "Selection timed out"
            /\ sel_pc' = "returned" /\ sel_exit' = "timeout"
            /\ selected_indices' = <<>>
            /\ UNCHANGED <<confirmed, sel_elapsed>>
       ELSE \E ok \in BOOLEAN :
            IF ~ok
            THEN /\ sel_pc' = "returned" /\ sel_exit' = "driver"
                 /\ selected_indices' = <<>>
                 /\ UNCHANGED <<confirmed, sel_elapsed>>
            ELSE /\ confirmed' = selectionConfirmed
                 /\ sel_pc' = IF selectionConfirmed THEN "confirmed" ELSE "wait"
                 /\ sel_elapsed' = IF selectionConfirmed \/ sel_elapsed >= MaxPolls
                                   THEN sel_elapsed ELSE sel_elapsed + 1
                 /\ UNCHANGED <<selected_indices, sel_exit>>
    /\ UNCHANGED <<sel_page, sel_ui, selectedButtons, selectionConfirmed, button_texts,
                   clnVars, thrVars, appVars, loopVars, ctlVars, setVars>>

\* after the break: read window.selectedButtons, return [] when it is empty,
\* capture the texts, remove the selection UI, return the indices; an error of
\* any of the driver calls is caught and [] is returned
SelFinish ==
    /\ sel_pc = "confirmed"
    /\ \E fail \in {"none", "read", "find", "remove"} :
          /\ sel_pc' = "returned"
          /\ IF fail = "read"
             THEN /\ sel_exit' = "driver" /\ selected_indices' = <<>>
                  /\ UNCHANGED <<button_texts, sel_ui>>
             ELSE IF selectedButtons = <<>>
             THEN /\ sel_exit' = "empty" /\ selected_indices' = <<>>
                  /\ UNCHANGED <<button_texts, sel_ui>>
             ELSE IF fail = "find"
             THEN /\ sel_exit' = "driver" /\ selected_indices' = <<>>
                  /\ UNCHANGED <<button_texts, sel_ui>>
             ELSE /\ button_texts' =
                        GetButtonTexts(selectedButtons, DomButtons(sel_page, sel_ui))
                  /\ IF fail = "remove"
                     THEN /\ sel_exit' = "driver" /\ selected_indices' = <<>>
                          /\ UNCHANGED sel_ui
                     ELSE /\ sel_exit' = "selected"
                          /\ selected_indices' = selectedButtons
                          /\ sel_ui' = FALSE
    /\ UNCHANGED <<sel_page, selectedButtons, selectionConfirmed, confirmed, sel_elapsed,
                   clnVars, thrVars, appVars, loopVars, ctlVars, setVars>>

NextSelect ==
    \/ SelBegin \/ SelPoll \/ SelFinish
    \/ UserClick \/ UserConfirm

SpecSelect == InitSelect /\ [][NextSelect]_vars

\* the steps of select_buttons_interactive are taken as long as the call has
\* not ended: every driver call returns, and none is bound to fail
SpecSelectFair ==
    /\ SpecSelect
    /\ WF_vars(SelBegin)
    /\ WF_vars(SelPoll /\ sel_exit' # "driver")
    /\ WF_vars(SelFinish)

SelEnded == sel_pc \in {"returned", "raised"}

C27_CapturedTextsMatchPage ==
    sel_exit = "selected" =>
        \A i \in Range(selected_indices) :
            i \in DOMAIN button_texts /\ button_texts[i] = TextAt(sel_page, i)

\* ==== SpecThread: MonitorThread, its run() and stop() =========================

\* MonitorThread.__init__, for every setting of auto_click and stop_after_click
InitThread ==
    /\ mt_pc = "new" /\ mt_running = FALSE /\ mt_dm = FALSE /\ mt_driver = FALSE
    /\ auto_click \in BOOLEAN /\ stop_after_click \in BOOLEAN
    /\ mt_log = <<>> /\ mt_stopReq = FALSE
    /\ ClnIdle /\ SelIdle /\ AppIdle /\ LoopIdle /\ CtlIdle /\ SetIdle

\* Thread.start(): the thread exists, run() has not executed a statement yet
MTStart ==
    /\ mt_pc = "new"
    /\ mt_pc' = "ready"
    /\ UNCHANGED <<mt_running, mt_dm, mt_driver, auto_click, stop_after_click,
                   mt_log, mt_stopReq, clnVars, selVars, appVars, loopVars, ctlVars, setVars>>

\* MonitorThread.stop(), called by another thread
MTStop ==
    /\ mt_pc \notin {"new", "done"}
    /\ mt_running' = FALSE
    /\ mt_stopReq' = TRUE
    /\ UNCHANGED <<mt_pc, mt_dm, mt_driver, auto_click, stop_after_click,
                   mt_log, clnVars, selVars, appVars, loopVars, ctlVars, setVars>>

\* run(): self.running = True, monitor_started, DriverManager()
MTRunBegin ==
    /\ mt_pc = "ready"
    /\ mt_running' = TRUE
    /\ mt_log' = Append(mt_log, "monitor_started")
    /\ mt_dm' = TRUE
    /\ mt_pc' = "navigate"
    /\ UNCHANGED <<mt_driver, auto_click, stop_after_click, mt_stopReq,
                   clnVars, selVars, appVars, loopVars, ctlVars, setVars>>

\* the first navigate_to: it returns True, or returns False (with or without a
\* browser), or initialize_driver raises. On False run() emits monitor_stopped
\* and returns, which enters the finally clause.
MTNavigate ==
    /\ mt_pc = "navigate"
    /\ \/ /\ mt_driver' = TRUE /\ mt_pc' = "loop"
          /\ UNCHANGED <<mt_running, mt_log>>
       \/ /\ mt_driver' \in BOOLEAN
          /\ mt_running' = FALSE
          /\ mt_log' = Append(mt_log, "monitor_stopped")
          /\ mt_pc' = "finally"
       \/ /\ mt_pc' = "finally"
          /\ UNCHANGED <<mt_running, mt_driver, mt_log>>
    /\ UNCHANGED <<mt_dm, auto_click, stop_after_click, mt_stopReq,
                   clnVars, selVars, appVars, loopVars, ctlVars, setVars>>

\* while self.running
MTLoopHead ==
    /\ mt_pc = "loop"
    /\ mt_pc' = IF mt_running THEN "find" ELSE "finally"
    /\ UNCHANGED <<mt_running, mt_dm, mt_driver, auto_click, stop_after_click,
                   mt_log, mt_stopReq, clnVars, selVars, appVars, loopVars, ctlVars, setVars>>

\* find_button and, for a button that was found, click_button: the iteration
\* goes on to the wait, or stops after the click, or a driver call raises
MTFind ==
    /\ mt_pc = "find"
    /\ \/ mt_pc' = "wait" /\ UNCHANGED mt_running
       \/ /\ auto_click /\ stop_after_click
          /\ mt_running' = FALSE /\ mt_pc' = "finally"
       \/ mt_pc' = "recover" /\ UNCHANGED mt_running
    /\ UNCHANGED <<mt_dm, mt_driver, auto_click, stop_after_click,
                   mt_log, mt_stopReq, clnVars, selVars, appVars, loopVars, ctlVars, setVars>>

\* the wait of refresh_interval seconds, left early when running is false,
\* and the test "if self.running" that follows it
MTWait ==
    /\ mt_pc = "wait"
    /\ mt_pc' = IF mt_running THEN "refresh" ELSE "loop"
    /\ UNCHANGED <<mt_running, mt_dm, mt_driver, auto_click, stop_after_click,
                   mt_log, mt_stopReq, clnVars, selVars, appVars, loopVars, ctlVars, setVars>>

\* refresh_page, and navigate_to when the refresh returned False
MTRefresh ==
    /\ mt_pc = "refresh"
    /\ mt_pc' \in {"loop", "finally", "recover"}
    /\ UNCHANGED <<mt_running, mt_dm, mt_driver, auto_click, stop_after_click,
                   mt_log, mt_stopReq, clnVars, selVars, appVars, loopVars, ctlVars, setVars>>

\* the handler of the loop's except: navigate_to; False or an exception breaks
MTRecover ==
    /\ mt_pc = "recover"
    /\ mt_pc' \in {"loop", "finally"}
    /\ UNCHANGED <<mt_running, mt_dm, mt_driver, auto_click, stop_after_click,
                   mt_log, mt_stopReq, clnVars, selVars, appVars, loopVars, ctlVars, setVars>>

\* the finally clause: running = False, cleanup of the driver manager,
\* monitor_stopped
MTFinally ==
    /\ mt_pc = "finally"
    /\ mt_running' = FALSE
    /\ mt_driver' = FALSE
    /\ mt_log' = IF mt_dm THEN mt_log \o <<"cleanup", "monitor_stopped">>
                 ELSE Append(mt_log, "monitor_stopped")
    /\ mt_pc' = "done"
    /\ UNCHANGED <<mt_dm, auto_click, stop_after_click, mt_stopReq,
                   clnVars, selVars, appVars, loopVars, ctlVars, setVars>>

\* a statement of run()
MTStep ==
    \/ MTRunBegin \/ MTNavigate \/ MTLoopHead \/ MTFind \/ MTWait
    \/ MTRefresh \/ MTRecover \/ MTFinally

NextThread == MTStart \/ MTStop \/ MTStep

SpecThread == InitThread /\ [][NextThread]_vars

\* the thread is scheduled again and again and its browser calls return; no
\* call is bound to fail and no click is bound to stop the run
SpecThreadFair ==
    /\ SpecThread
    /\ WF_vars(MTStep /\ mt_pc' \notin {"recover", "finally"})
    /\ WF_vars(MTLoopHead) /\ WF_vars(MTFinally)

\* C25: a stop request made after the thread was started ends the run.
C25_StopNotLost == mt_stopReq ~> (mt_pc = "done")

\* C30: a run that has ended emitted monitor_started once and then
\* monitor_stopped once, with at most one cleanup and that before monitor_stopped.
C30_SignalsOncePerRun ==
    mt_pc = "done" =>
        mt_log \in {<<"monitor_started", "monitor_stopped">>,
                    <<"monitor_started", "cleanup", "monitor_stopped">>}

\* ==== SpecApp: the GUI, its controller and the CLI on one settings file ======

\* Python's truth value of a stored value: an empty list, an empty string and
\* 0.0 are false
Truthy(v) == v \notin {<<"list">>, <<"">>, <<"0.0">>}

IsIndexList(v) == v[1] = "list"
IsNumber(v) == v \in {<<"5.0">>, <<"1.0">>, <<"0.0">>}

\* the dictionary start_monitoring(url, refresh_interval, selected_buttons) hands
\* to settings_manager.update
StartMonitoringDict(url, refresh_interval, selected_buttons) ==
    [k \in {"url", "refresh_interval", "selected_buttons"} |->
        CASE k = "url" -> url
          [] k = "refresh_interval" -> refresh_interval
          [] k = "selected_buttons" -> selected_buttons]

\* a successful _save_settings of document doc
Written(doc) == DiskAfterSave(settings_file, doc, "written")

\* the document of the controller a GUI handler works with: the existing
\* controller's, or that of the MonitorController() it constructs
ControllerSettings ==
    IF controller THEN ctl_settings ELSE LoadSettings(settings_file)

\* QtMonitorGUI.__init__ on a machine without a settings file or with one
InitApp ==
    /\ settings_file \in {NoFile, [state |-> "ok", doc |-> DefaultSettings]}
    /\ gui_settings = LoadSettings(settings_file)
    /\ controller = FALSE /\ ctl_settings = DefaultSettings
    /\ monitoring = FALSE /\ gui_saved = None /\ app_last = NoStart
    /\ ClnIdle /\ SelIdle /\ ThrIdle /\ LoopIdle /\ CtlIdle /\ SetIdle

\* the document of the GUI's manager after save_settings wrote the fields of
\* the window: update_telegram_settings, then update
GuiDocAfterSave(tv, d) ==
    DocAfterUpdate(DocAfterSet(gui_settings, "telegram",
                               TelegramSection(tv[1], tv[2], tv[3], tv[4])), d)

\* QtMonitorGUI.save_settings
GuiSaveSettings ==
    \E tv \in TelegramValues, d \in StartParams :
        /\ gui_settings' = GuiDocAfterSave(tv, d)
        /\ settings_file' = Written(gui_settings')
        /\ gui_saved' = tv
        /\ UNCHANGED <<controller, ctl_settings, monitoring, app_last,
                       clnVars, selVars, thrVars, loopVars, ctlVars, setVars>>

\* QtMonitorGUI.select_buttons: construct the controller if there is none,
\* save_settings, controller.select_buttons(url), which stores a non-empty
\* selection and the url through the controller's manager (an empty selection
\* or an error of the selection stores nothing)
GuiSelectButtons ==
    /\ ~monitoring
    /\ \E tv \in TelegramValues, d \in StartParams,
          selected \in ValuesOf("selected_buttons") :
          /\ controller' = TRUE
          /\ gui_settings' = GuiDocAfterSave(tv, d)
          /\ gui_saved' = tv
          /\ ctl_settings' =
                IF Truthy(selected)
                THEN DocAfterSet(DocAfterSet(ControllerSettings,
                                             "selected_buttons", selected),
                                 "url", d["url"])
                ELSE ControllerSettings
          /\ settings_file' = IF Truthy(selected) THEN Written(ctl_settings')
                              ELSE Written(gui_settings')
    /\ UNCHANGED <<monitoring, app_last,
                   clnVars, selVars, thrVars, loopVars, ctlVars, setVars>>

\* QtMonitorGUI.start_monitor and the start_monitoring its MonitorThread calls:
\* construct the controller if there is none, read the fields of the window,
\* persist the session parameters, decide on a notifier
GuiStartMonitor ==
    /\ ~monitoring
    /\ \E d \in StartParams :
          /\ Truthy(d["selected_buttons"])
          /\ controller' = TRUE
          /\ ctl_settings' = DocAfterUpdate(ControllerSettings, d)
          /\ settings_file' = Written(ctl_settings')
          /\ monitoring' = TRUE
          /\ app_last' = [op |-> "gui_start",
                          targets |-> d["selected_buttons"],
                          interval |-> d["refresh_interval"],
                          wantTargets |-> d["selected_buttons"],
                          wantInterval |-> d["refresh_interval"],
                          creds |-> Get(ctl_settings', "telegram", <<"", "", "", "">>)]
    /\ UNCHANGED <<gui_settings, gui_saved,
                   clnVars, selVars, thrVars, loopVars, ctlVars, setVars>>

\* QtMonitorGUI.stop_monitor, or the end of the monitor thread: the controller
\* is cleaned up and dropped
GuiStopMonitor ==
    /\ monitoring
    /\ monitoring' = FALSE
    /\ controller' = FALSE
    /\ UNCHANGED <<settings_file, gui_settings, ctl_settings, gui_saved, app_last,
                   clnVars, selVars, thrVars, loopVars, ctlVars, setVars>>

\* controller.start_monitoring as cli_main calls it, in a process of its own:
\* MonitorController() reads the file, the call persists its parameters
CliStart(op, url, selected_buttons, refresh) ==
    LET doc == LoadSettings(settings_file)
        d   == StartMonitoringDict(url, selected_buttons, refresh)
    IN  /\ Truthy(selected_buttons)
        /\ settings_file' = Written(DocAfterUpdate(doc, d))
        /\ app_last' = [op |-> op,
                        targets |-> d["selected_buttons"],
                        interval |-> d["refresh_interval"],
                        wantTargets |-> selected_buttons,
                        wantInterval |-> refresh,
                        creds |-> Get(doc, "telegram", <<"", "", "", "">>)]
        /\ UNCHANGED <<gui_settings, controller, ctl_settings, monitoring, gui_saved,
                       clnVars, selVars, thrVars, loopVars, ctlVars, setVars>>

\* cli_main with --monitor --url URL [--refresh R]
CliMonitorFlag ==
    \E refresh \in ValuesOf("refresh_interval") :
        CliStart("cli_monitor", <<"https://example.com">>,
                 Get(LoadSettings(settings_file), "selected_buttons", <<"list">>),
                 refresh)

\* option 3 of the menu of cli_main
CliMenuMonitor ==
    LET doc == LoadSettings(settings_file)
    IN  /\ Truthy(Get(doc, "url", <<"">>))
        /\ CliStart("cli_menu", Get(doc, "url", <<"">>),
                    Get(doc, "selected_buttons", <<"list">>),
                    Get(doc, "refresh_interval", <<"5.0">>))

NextApp ==
    \/ GuiSaveSettings \/ GuiSelectButtons \/ GuiStartMonitor \/ GuiStopMonitor
    \/ CliMonitorFlag \/ CliMenuMonitor

SpecApp == InitApp /\ [][NextApp]_vars

\* C28: a start from the CLI's monitor mode gives the controller the persisted
\* selection as TargetSet and the requested interval, and leaves a document
\* whose selected_buttons is a list of indices and whose refresh_interval is a
\* number.
C28_CliMonitorArguments ==
    app_last.op \in {"cli_monitor", "cli_menu"} =>
        /\ app_last.targets = app_last.wantTargets
        /\ app_last.interval = app_last.wantInterval
        /\ (LET doc == LoadSettings(settings_file)
            IN  /\ IsIndexList(doc["selected_buttons"])
                /\ IsNumber(doc["refresh_interval"]))

\* C29: the credentials the GUI saved are the ones in the file, and the ones a
\* start through the GUI's controller decides on a notifier with.
C29_SavedCredentialsSurvive ==
    gui_saved # None =>
        /\ Get(LoadSettings(settings_file), "telegram", <<"", "", "", "">>) = gui_saved
        /\ (app_last.op = "gui_start" /\ monitoring) => app_last.creds = gui_saved

====
